---------------------------- MODULE Spec2Model ----------------------------
(***************************************************************************)
(* A model of the KGR Toolbox QGIS plugin (csgis/kgr_toolbox):             *)
(*   - CleanQGSTab.clean_file           (tabs/clean_qgs_tab.py)            *)
(*   - ArchiveProjectTab._on_archive_project (tabs/archive_project_tab.py) *)
(*   - DatabaseManager administrative operations (database_manager.py)     *)
(*   - DatabaseManager.fix_qgis_project_layers (database_manager.py)       *)
(*                                                                         *)
(* Text is modelled as a sequence of lexical atoms.  The atoms are the     *)
(* tokens the regular expressions of the code distinguish: the keys        *)
(* "dbname=", "user=", "password=", the two quote characters, white space, *)
(* the <datasource> tags and an ordinary character "a".  Every regular     *)
(* expression of the code is translated to a scanner over such sequences   *)
(* that follows Python's re semantics (leftmost match, greedy quantifiers, *)
(* non-overlapping substitution).                                          *)
(***************************************************************************)
EXTENDS Integers, Sequences, FiniteSets, TLC

VARIABLES
    \* ---- CleanQGSTab -------------------------------------------------
    fs,               \* the file system: path -> file
    file_path,        \* file_path_edit.text()
    remove_user,      \* remove_user_checkbox.isChecked()
    remove_password,  \* remove_password_checkbox.isChecked()
    cleanPc,          \* "ready" before clean_file, "done" after it returned
    file_cleaned,     \* the paths emitted through the file_cleaned signal
    changes_count,    \* changes_count of the last clean_file (-1: not computed)
    fs0,              \* the file system as it was when clean_file was called
    \* ---- ArchiveProjectTab -------------------------------------------
    archPc,           \* position of _on_archive_project
    project_layers,   \* QgsProject.instance().mapLayers(), in iteration order
    project_file,     \* the open project's .qgs file: [text, readonly]
    export_file,      \* <project>_portable.qgs: [exists, text, readonly]
    layer_idx,        \* the layers the export loop has handled
    new_layer_sources,\* layer ids exported to data.gpkg
    update_raised,    \* _update_project_sources_comprehensive logged an exception
    project_archived, \* the number of project_archived emissions
    \* ---- PostgreSQL server and DatabaseManager -------------------------
    catalog,          \* pg_database: name -> "absent", "db" or "template"
    sessions,         \* pg_stat_activity: name -> sessions of other clients
    conn_db,          \* connection_params['database']
    call,             \* the operation in progress, one of Calls
    dbPc,             \* position of the operation
    connection_count, \* the local connection_count / remaining_connections
    seen_sessions,    \* sessions on call.a when the first count was taken
    seen_remaining,   \* sessions on call.a when the re-count was taken
    stmts,            \* statements sent for this call: [s, n]
    emitted,          \* the booleans emitted through operation_finished
    ret,              \* "none", "true", "false", or "raised"
    rows,             \* database -> table -> 1 when the table holds its rows, else 0
    fks,              \* the foreign keys: pairs <<referencing, referenced>>
    open_connections, \* connections the manager opened that are still open
    \* ---- DatabaseManager.fix_qgis_project_layers -----------------------
    row_exists,       \* the qgis_projects table has a row with the name
    row_content,      \* the content column of that row
    new_params,       \* the connection parameters to write
    fixPc,            \* position of fix_qgis_project_layers
    project_content,  \* what _download_project_content returned
    fixed_content,    \* what _process_qgs_file returned: [ok, content]
    fix_finished,     \* the booleans emitted through operation_finished
    fix_fault,        \* a query or a file operation of this call has failed
    \* ---- DatabaseManager._clean_and_preserve_zip_content --------------
    zip_content,      \* the argument content
    zip_result,       \* the pair returned: [ok, clean, prefix]
    zipPc,            \* "idle" before the call, "done" after it
    \* ---- DatabaseManager._modify_qgs_datasources -----------------------
    qgs_data,         \* the datasources of the file at qgs_path
    mod_params,       \* the argument new_params
    qgs_data0,        \* the datasources before the call
    modPc             \* "idle" before the call, "done" after it

cleanVars == <<fs, file_path, remove_user, remove_password, cleanPc, file_cleaned,
               changes_count, fs0>>

archVars == <<archPc, project_layers, project_file, export_file, layer_idx,
              new_layer_sources, update_raised, project_archived>>

dbVars == <<catalog, sessions, conn_db, call, dbPc, connection_count,
            seen_sessions, seen_remaining, stmts, emitted, ret,
            rows, fks, open_connections>>

fixVars == <<row_exists, row_content, new_params, fixPc, project_content, fix_fault,
             fixed_content,
             fix_finished>>

zipVars == <<zip_content, zip_result, zipPc>>

modVars == <<qgs_data, mod_params, qgs_data0, modPc>>

vars == <<cleanVars, archVars, dbVars, fixVars, zipVars, modVars>>

\* what the handlers of one component leave alone
notClean == <<archVars, dbVars, fixVars, zipVars, modVars>>
notArch == <<cleanVars, dbVars, fixVars, zipVars, modVars>>
notDb == <<cleanVars, archVars, fixVars, zipVars, modVars>>
notFix == <<cleanVars, archVars, dbVars, zipVars, modVars>>
notZip == <<cleanVars, archVars, dbVars, fixVars, modVars>>
notMod == <<cleanVars, archVars, dbVars, fixVars, zipVars>>

-----------------------------------------------------------------------------
(* Bounds *)

\* the largest number of <datasource> elements of a generated project text
MaxDs == 2

\* the largest number of map layers of the project that is archived
MaxLayers == 2

\* the largest number of sessions other clients hold on the server
MaxSessions == 2

\* the largest number of members of a stored project archive
MaxMembers == 3

\* the largest number of bytes in front of the archive of a stored content
MaxPre == 3

\* the largest number of datasources of a project file that is rewritten
MaxModDs == 2

-----------------------------------------------------------------------------
(* Generic helpers on sequences *)

Range(s) == {s[i] : i \in 1..Len(s)}

\* s[i..j] as Python's s[i-1:j]
Slice(s, i, j) == IF i > j THEN <<>> ELSE SubSeq(s, i, j)

\* the smallest index >= i whose element is in set S, or Len(s)+1
RECURSIVE FirstIn(_, _, _)
FirstIn(s, i, S) ==
    IF i > Len(s) THEN Len(s) + 1
    ELSE IF s[i] \in S THEN i
    ELSE FirstIn(s, i + 1, S)

\* the smallest index >= i whose element is NOT in set S, or Len(s)+1
RECURSIVE FirstNotIn(_, _, _)
FirstNotIn(s, i, S) ==
    IF i > Len(s) THEN Len(s) + 1
    ELSE IF s[i] \notin S THEN i
    ELSE FirstNotIn(s, i + 1, S)

\* the largest index whose element is in S, or 0  (str.rfind + 1)
RECURSIVE LastIn(_, _, _)
LastIn(s, i, S) ==
    IF i < 1 THEN 0
    ELSE IF s[i] \in S THEN i
    ELSE LastIn(s, i - 1, S)

RECURSIVE Concat(_)
Concat(ss) == IF ss = <<>> THEN <<>> ELSE Head(ss) \o Concat(Tail(ss))

EndsWith(s, suffix) ==
    /\ Len(s) >= Len(suffix)
    /\ Slice(s, Len(s) - Len(suffix) + 1, Len(s)) = suffix

-----------------------------------------------------------------------------
(* Lexical atoms of project text *)

WS == {" ", "\n"}                 \* the regex class \s
QuoteChars == {"'", "\""}         \* the regex class ['"]
DsOpen == "<datasource>"
DsClose == "</datasource>"

\* str.strip()
Strip(s) ==
    LET a == FirstNotIn(s, 1, WS)
        RECURSIVE LastNonWs(_)
        LastNonWs(i) == IF i < 1 THEN 0
                        ELSE IF s[i] \notin WS THEN i ELSE LastNonWs(i - 1)
    IN  Slice(s, a, LastNonWs(Len(s)))

\* re.sub(r'\s+', ' ', s)
RECURSIVE CollapseWsFrom(_, _)
CollapseWsFrom(s, i) ==
    IF i > Len(s) THEN <<>>
    ELSE IF s[i] \in WS
         THEN <<" ">> \o CollapseWsFrom(s, FirstNotIn(s, i, WS))
         ELSE <<s[i]>> \o CollapseWsFrom(s, i + 1)

CollapseWs(s) == CollapseWsFrom(s, 1)

-----------------------------------------------------------------------------
(* CleanQGSTab: the credential cleaner of tabs/clean_qgs_tab.py *)

\* The length of the match of  \s*KEY['"][^'"]*['"]  that starts at index i
\* of s, or 0 when the pattern does not match there.  \s* is greedy and the
\* key is no white space, so the only candidate skips the whole run of white
\* space; [^'"]* is greedy and stops at the first quote character.
QuotedParamMatchLen(s, i, key) ==
    LET j == FirstNotIn(s, i, WS)
        k == FirstIn(s, j + 2, QuoteChars)
    IN  IF /\ j + 1 <= Len(s)
           /\ s[j] = key
           /\ s[j + 1] \in QuoteChars
           /\ k <= Len(s)
        THEN k - i + 1
        ELSE 0

\* re.sub(r"\s*KEY['\"][^'\"]*['\"]", "", s)
RECURSIVE RemoveQuotedParamFrom(_, _, _)
RemoveQuotedParamFrom(s, i, key) ==
    IF i > Len(s) THEN <<>>
    ELSE LET n == QuotedParamMatchLen(s, i, key)
         IN  IF n > 0 THEN RemoveQuotedParamFrom(s, i + n, key)
             ELSE <<s[i]>> \o RemoveQuotedParamFrom(s, i + 1, key)

RemoveQuotedParam(s, key) == RemoveQuotedParamFrom(s, 1, key)

\* CleanQGSTab._has_postgres_credentials
HasPostgresCredentials(datasource, ru, rp) ==
    LET has_dbname == "dbname=" \in Range(datasource)
        has_user == "user=" \in Range(datasource) /\ ru
        has_password == "password=" \in Range(datasource) /\ rp
    IN  has_dbname /\ (has_user \/ has_password)

\* CleanQGSTab._clean_single_datasource
CleanSingleDatasource(datasource, ru, rp) ==
    LET c1 == IF ru THEN RemoveQuotedParam(datasource, "user=") ELSE datasource
        c2 == IF rp THEN RemoveQuotedParam(c1, "password=") ELSE c1
    IN  Strip(CollapseWs(c2))

\* CleanQGSTab._clean_datasources: re.sub over <datasource>(.*?)</datasource>
\* with the replace_datasource callback; returns the text and changes_count.
RECURSIVE CleanDatasourcesFrom(_, _, _, _)
CleanDatasourcesFrom(s, i, ru, rp) ==
    IF i > Len(s) THEN [text |-> <<>>, count |-> 0]
    ELSE LET j == FirstIn(s, i + 1, {DsClose})
         IN  IF s[i] = DsOpen /\ j <= Len(s)
             THEN LET original == Strip(Slice(s, i + 1, j - 1))
                      cleaned == CleanSingleDatasource(original, ru, rp)
                      changed == /\ HasPostgresCredentials(original, ru, rp)
                                 /\ cleaned # original
                      rest == CleanDatasourcesFrom(s, j + 1, ru, rp)
                  IN  IF changed
                      THEN [text |-> <<DsOpen>> \o cleaned \o <<DsClose>> \o rest.text,
                            count |-> rest.count + 1]
                      ELSE [text |-> Slice(s, i, j) \o rest.text,
                            count |-> rest.count]
             ELSE LET rest == CleanDatasourcesFrom(s, i + 1, ru, rp)
                  IN  [text |-> <<s[i]>> \o rest.text, count |-> rest.count]

CleanDatasources(content, ru, rp) == CleanDatasourcesFrom(content, 1, ru, rp)

\* the contents of the <datasource> elements of a text, in order
RECURSIVE DatasourcesFrom(_, _)
DatasourcesFrom(s, i) ==
    IF i > Len(s) THEN <<>>
    ELSE LET j == FirstIn(s, i + 1, {DsClose})
         IN  IF s[i] = DsOpen /\ j <= Len(s)
             THEN <<Slice(s, i + 1, j - 1)>> \o DatasourcesFrom(s, j + 1)
             ELSE DatasourcesFrom(s, i + 1)

Datasources(s) == DatasourcesFrom(s, 1)

-----------------------------------------------------------------------------
(* Paths and files *)

\* A path is a sequence of atoms: "/" separates directories, "." is the
\* extension separator, every other atom is a run of ordinary characters.
\* A file is [zip, text, members]: a text file has zip = FALSE and its text;
\* a ZIP archive has zip = TRUE and the sequence of its members [name, data]
\* in archive order.

TextFile(t) == [zip |-> FALSE, text |-> t, members |-> <<>>]
ZipFile(ms) == [zip |-> TRUE, text |-> <<>>, members |-> ms]

QgzSuffix == <<".", "qgz">>
QgsSuffix == <<".", "qgs">>

\* os.path.splitext
SplitExt(p) ==
    LET sepIndex == LastIn(p, Len(p), {"/"})
        dotIndex == LastIn(p, Len(p), {"."})
    IN  IF /\ dotIndex > sepIndex
           /\ \E k \in (sepIndex + 1)..(dotIndex - 1) : p[k] # "."
        THEN [base |-> Slice(p, 1, dotIndex - 1), ext |-> Slice(p, dotIndex, Len(p))]
        ELSE [base |-> p, ext |-> <<>>]

\* os.path.basename
Basename(p) == Slice(p, LastIn(p, Len(p), {"/"}) + 1, Len(p))

\* str.replace('.qgz', '.qgs')
RECURSIVE ReplaceQgzFrom(_, _)
ReplaceQgzFrom(p, i) ==
    IF i > Len(p) THEN <<>>
    ELSE IF i < Len(p) /\ p[i] = "." /\ p[i + 1] = "qgz"
         THEN QgsSuffix \o ReplaceQgzFrom(p, i + 2)
         ELSE <<p[i]>> \o ReplaceQgzFrom(p, i + 1)

\* the mutant of CleanedPath: the output is written over the input
CleanedPathInPlace(p) == p

\* clean_file: base_name, ext = os.path.splitext(file_path);
\*             cleaned_path = f"{base_name}_cleaned{ext}"
CleanedPath(p) == SplitExt(p).base \o <<"_cleaned">> \o SplitExt(p).ext

\* CleanQGSTab._read_qgs_file: [ok, text]; ok = FALSE stands for None
ReadQgsFile(files, p) ==
    IF EndsWith(p, QgzSuffix)
    THEN LET f == files[p]
             qgs_files == SelectSeq(f.members, LAMBDA m : EndsWith(m.name, QgsSuffix))
         IN  IF ~f.zip \/ qgs_files = <<>>
             THEN [ok |-> FALSE, text |-> <<>>]
             ELSE [ok |-> TRUE, text |-> qgs_files[1].data]
    ELSE IF files[p].zip
         THEN [ok |-> FALSE, text |-> <<>>]
         ELSE [ok |-> TRUE, text |-> files[p].text]

\* the name NamedTemporaryFile(suffix='.qgs') gives: a fresh file of the
\* temporary directory
TempQgsPath == <<"tmp", "/", "t", ".", "qgs">>

\* CleanQGSTab._write_qgs_file: the file system after the call
WriteQgsFile(files, output_path, content, is_qgz) ==
    IF is_qgz
    THEN LET withTemp == (TempQgsPath :> TextFile(content)) @@ files
             member == [name |-> ReplaceQgzFrom(Basename(output_path), 1),
                        data |-> withTemp[TempQgsPath].text]
             zipped == (output_path :> ZipFile(<<member>>)) @@ withTemp
         IN  [q \in DOMAIN zipped \ {TempQgsPath} |-> zipped[q]]
    ELSE (output_path :> TextFile(content)) @@ files

-----------------------------------------------------------------------------
(* Generated project texts *)

\* how a key=value parameter is written: not at all, value in single quotes,
\* or the value bare
ParamStyles == {"absent", "'", "bare"}

RenderParam(key, style) ==
    IF style = "absent" THEN <<>>
    ELSE IF style = "bare" THEN <<" ", key, "a">>
    ELSE <<" ", key, style, "a", style>>

\* the datasource strings: an optional dbname, an optional user and an
\* optional password, then the table
DsForms ==
    { Tail(RenderParam("dbname=", d) \o RenderParam("user=", u)
           \o RenderParam("password=", w) \o <<" ", "table=", "a">>) :
        d \in {"absent", "'"}, u \in ParamStyles, w \in {"absent", "'"} }

RECURSIVE SeqsUpTo(_, _)
SeqsUpTo(S, n) ==
    IF n = 0 THEN {<<>>}
    ELSE LET shorter == SeqsUpTo(S, n - 1)
         IN  shorter \cup {Append(q, x) : q \in shorter, x \in S}

WrapDs(d) == <<DsOpen>> \o d \o <<DsClose>>

RECURSIVE RenderProject(_)
RenderProject(dss) ==
    IF dss = <<>> THEN <<"</qgis>">>
    ELSE WrapDs(Head(dss)) \o RenderProject(Tail(dss))

\* the project texts: the empty file, and <qgis> around up to MaxDs datasources
ProjectTexts == {<<>>} \cup {<<"<qgis>">> \o RenderProject(dss) : dss \in SeqsUpTo(DsForms, MaxDs)}

\* the archives a .qgz may hold around the project text
ArchiveShapes == {"qgs", "qgs+aux", "aux+qgs", "aux", "notzip"}

QgsMember(t) == [name |-> <<"proj", ".", "qgs">>, data |-> t]
AuxMember == [name |-> <<"proj", ".", "qgd">>, data |-> <<"a">>]

QgzFile(shape, t) ==
    CASE shape = "qgs" -> ZipFile(<<QgsMember(t)>>)
      [] shape = "qgs+aux" -> ZipFile(<<QgsMember(t), AuxMember>>)
      [] shape = "aux+qgs" -> ZipFile(<<AuxMember, QgsMember(t)>>)
      [] shape = "aux" -> ZipFile(<<AuxMember>>)
      [] OTHER -> TextFile(t)

\* the files the user can select, and one that does not exist
InputPaths == { <<"proj", ".", "qgs">>, <<"proj", ".", "qgz">>,
                <<"proj", "_cleaned", ".", "qgs">>, <<".", "qgs">>,
                <<"d", ".", "v", "/", "proj">> }
MissingPath == <<"gone", ".", "qgs">>

-----------------------------------------------------------------------------
(* CleanQGSTab: state and handlers *)

CleanInit ==
    /\ \E t \in ProjectTexts, shape \in ArchiveShapes :
          fs = [q \in InputPaths |->
                   IF EndsWith(q, QgzSuffix) THEN QgzFile(shape, t) ELSE TextFile(t)]
    /\ file_path = <<>>
    /\ remove_user = TRUE          \* setChecked(True)
    /\ remove_password = TRUE      \* setChecked(True)
    /\ cleanPc = "idle"
    /\ file_cleaned = <<>>
    /\ changes_count = -1
    /\ fs0 = fs

\* CleanQGSTab.browse_file: the dialog returns a path, which is put in the edit
BrowseFile ==
    /\ UNCHANGED notClean
    /\ cleanPc = "idle"
    /\ \E q \in InputPaths \cup {MissingPath} :
          /\ q # file_path
          /\ file_path' = q
    /\ UNCHANGED <<fs, remove_user, remove_password, cleanPc, file_cleaned,
                   changes_count, fs0>>

\* the user toggles a check box
ToggleRemoveUser ==
    /\ UNCHANGED notClean
    /\ cleanPc = "idle"
    /\ remove_user' = ~remove_user
    /\ UNCHANGED <<fs, file_path, remove_password, cleanPc, file_cleaned,
                   changes_count, fs0>>

ToggleRemovePassword ==
    /\ UNCHANGED notClean
    /\ cleanPc = "idle"
    /\ remove_password' = ~remove_password
    /\ UNCHANGED <<fs, file_path, remove_user, cleanPc, file_cleaned,
                   changes_count, fs0>>

\* CleanQGSTab.clean_file
CleanFile ==
    /\ UNCHANGED notClean
    /\ cleanPc = "idle"
    /\ cleanPc' = "done"
    /\ fs0' = fs
    /\ UNCHANGED <<file_path, remove_user, remove_password>>
    /\ IF file_path = <<>> \/ file_path \notin DOMAIN fs
       THEN \* empty edit, or "Selected file does not exist."
            UNCHANGED <<fs, file_cleaned, changes_count>>
       ELSE LET qgs_content == ReadQgsFile(fs, file_path)
                r == CleanDatasources(qgs_content.text, remove_user, remove_password)
                cleaned_path == CleanedPath(file_path)
            IN  IF ~qgs_content.ok \/ qgs_content.text = <<>>
                THEN UNCHANGED <<fs, file_cleaned, changes_count>>
                ELSE /\ changes_count' = r.count
                     /\ IF r.count = 0
                        THEN UNCHANGED <<fs, file_cleaned>>
                        ELSE \/ \* the write succeeds
                                /\ fs' = WriteQgsFile(fs, cleaned_path, r.text,
                                                      EndsWith(file_path, QgzSuffix))
                                /\ file_cleaned' = Append(file_cleaned, cleaned_path)
                             \/ \* open() of the output raises: nothing is written
                                /\ UNCHANGED <<fs, file_cleaned>>
                             \/ \* the write raises after open() truncated the output
                                /\ fs' = (cleaned_path :> TextFile(<<>>)) @@ fs
                                /\ UNCHANGED file_cleaned

CleanNext ==
    \/ BrowseFile
    \/ ToggleRemoveUser
    \/ ToggleRemovePassword
    \/ CleanFile

\* the tab before any file is on disk or selected
CleanIdle ==
    /\ fs = <<>>
    /\ file_path = <<>>
    /\ remove_user = TRUE
    /\ remove_password = TRUE
    /\ cleanPc = "idle"
    /\ file_cleaned = <<>>
    /\ changes_count = -1
    /\ fs0 = <<>>

-----------------------------------------------------------------------------
(* Claims about CleanQGSTab.clean_file (checked under SpecClean) *)

\* clean_file has returned after writing the output and emitting file_cleaned
CleanWroteOutput == cleanPc = "done" /\ file_cleaned # <<>>

\* the project text held by a written output file
OutputText(f) ==
    IF f.zip
    THEN LET qgs == SelectSeq(f.members, LAMBDA m : EndsWith(m.name, QgsSuffix))
         IN  IF qgs = <<>> THEN <<>> ELSE qgs[1].data
    ELSE f.text

CredentialFree(d) == "user=" \notin Range(d) /\ "password=" \notin Range(d)

\* C1: when clean_file ran with both check boxes checked and wrote an output
\* file, no <datasource> of the output that contains dbname= still contains
\* user= or password=, quoted or not.
C1_NoCredentialsInCleanedOutput ==
    (CleanWroteOutput /\ remove_user /\ remove_password) =>
        LET dss == Datasources(OutputText(fs[file_cleaned[1]]))
        IN  \A i \in DOMAIN dss :
                "dbname=" \in Range(dss[i]) => CredentialFree(dss[i])

C9_QgzKeepsAllMembers ==
    (CleanWroteOutput /\ EndsWith(file_path, QgzSuffix)) =>
        LET in == fs0[file_path]
            out == fs[file_cleaned[1]]
            first == CHOOSE i \in DOMAIN in.members :
                        /\ EndsWith(in.members[i].name, QgsSuffix)
                        /\ \A j \in 1..(i - 1) : ~EndsWith(in.members[j].name, QgsSuffix)
        IN  /\ out.zip
            /\ \E o \in Range(out.members) :
                  /\ EndsWith(o.name, QgsSuffix)
                  /\ o.data = CleanDatasources(in.members[first].data,
                                               remove_user, remove_password).text
            /\ \A i \in DOMAIN in.members :
                  i # first => in.members[i] \in Range(out.members)

-----------------------------------------------------------------------------
(* ArchiveProjectTab: the credential scrubber of tabs/archive_project_tab.py *)

\* length of the match of  KEY['"][^'"]*['"]  at index j, or 0
QuotedLenAt(s, j, key) ==
    LET k == FirstIn(s, j + 2, QuoteChars)
    IN  IF /\ j + 1 <= Len(s)
           /\ s[j] = key
           /\ s[j + 1] \in QuoteChars
           /\ k <= Len(s)
        THEN k - j + 1
        ELSE 0

\* length of the match of  KEY[^\s]+  at index j, or 0
BareLenAt(s, j, key) ==
    IF /\ j + 1 <= Len(s)
       /\ s[j] = key
       /\ s[j + 1] \notin WS
    THEN FirstIn(s, j + 1, WS) - j
    ELSE 0

\* length of the run of white space that starts at index i
WsRunAt(s, i) == FirstNotIn(s, i, WS) - i

\* The length of the match at index i of one of the six patterns that
\* _clean_credentials_from_content substitutes for a key, or 0:
\*   "ws_quoted"  \s+KEY['"][^'"]*['"]      "ws_bare"  \s+KEY[^\s]+
\*   "quoted_ws"  KEY['"][^'"]*['"]\s+      "bare_ws"  KEY[^\s]+\s+
\*   "quoted"     KEY['"][^'"]*['"]         "bare"     KEY[^\s]+
CredMatchLen(s, i, pat, key) ==
    LET lead == WsRunAt(s, i)
        q == QuotedLenAt(s, i, key)
        b == BareLenAt(s, i, key)
    IN  CASE pat = "ws_quoted" ->
                IF lead >= 1 /\ QuotedLenAt(s, i + lead, key) > 0
                THEN lead + QuotedLenAt(s, i + lead, key) ELSE 0
          [] pat = "ws_bare" ->
                IF lead >= 1 /\ BareLenAt(s, i + lead, key) > 0
                THEN lead + BareLenAt(s, i + lead, key) ELSE 0
          [] pat = "quoted_ws" ->
                IF q > 0 /\ WsRunAt(s, i + q) >= 1 THEN q + WsRunAt(s, i + q) ELSE 0
          [] pat = "bare_ws" ->
                IF b > 0 /\ WsRunAt(s, i + b) >= 1 THEN b + WsRunAt(s, i + b) ELSE 0
          [] pat = "quoted" -> q
          [] OTHER -> b

\* re.sub(pattern, '', s)
RECURSIVE RemoveCredFrom(_, _, _, _)
RemoveCredFrom(s, i, pat, key) ==
    IF i > Len(s) THEN <<>>
    ELSE LET n == CredMatchLen(s, i, pat, key)
         IN  IF n > 0 THEN RemoveCredFrom(s, i + n, pat, key)
             ELSE <<s[i]>> \o RemoveCredFrom(s, i + 1, pat, key)

\* the six substitutions for one key, in the order of the code
RemoveCredKey(s, key) ==
    LET s1 == RemoveCredFrom(s, 1, "ws_quoted", key)
        s2 == RemoveCredFrom(s1, 1, "ws_bare", key)
        s3 == RemoveCredFrom(s2, 1, "quoted_ws", key)
        s4 == RemoveCredFrom(s3, 1, "bare_ws", key)
        s5 == RemoveCredFrom(s4, 1, "quoted", key)
    IN  RemoveCredFrom(s5, 1, "bare", key)

\* ArchiveProjectTab._clean_credentials_from_content (the cleaned content)
CleanCredentialsFromContent(content) ==
    RemoveCredKey(RemoveCredKey(content, "user="), "password=")

-----------------------------------------------------------------------------
(* ArchiveProjectTab: the project XML *)

XmlOpenTags == {"<qgis>", "<maplayer>", "<id>", DsOpen}
XmlCloseTags == {"</qgis>", "</maplayer>", "</id>", DsClose}

XmlCloseOf(t) ==
    CASE t = "<qgis>" -> "</qgis>"
      [] t = "<maplayer>" -> "</maplayer>"
      [] t = "<id>" -> "</id>"
      [] OTHER -> DsClose

\* ET.fromstring succeeds: one root element, tags properly nested, only
\* white space outside the root
RECURSIVE XmlWellFormedFrom(_, _, _, _)
XmlWellFormedFrom(s, i, stack, roots) ==
    IF i > Len(s) THEN stack = <<>> /\ roots = 1
    ELSE IF s[i] \in XmlOpenTags
         THEN /\ (stack = <<>> => roots = 0)
              /\ XmlWellFormedFrom(s, i + 1, <<s[i]>> \o stack,
                                   IF stack = <<>> THEN roots + 1 ELSE roots)
    ELSE IF s[i] \in XmlCloseTags
         THEN /\ stack # <<>>
              /\ XmlCloseOf(Head(stack)) = s[i]
              /\ XmlWellFormedFrom(s, i + 1, Tail(stack), roots)
    ELSE /\ (stack = <<>> => s[i] \in WS)
         /\ XmlWellFormedFrom(s, i + 1, stack, roots)

XmlWellFormed(s) == XmlWellFormedFrom(s, 1, <<>>, 0)

\* new_source = f"data.gpkg|layername={layer_name}"
NewSource(id) == <<"data.gpkg|layername=", id>>

\* maplayer.findtext("id") of the <maplayer> element s[i..j]
MaplayerId(s, i, j) ==
    LET k == FirstIn(s, i, {"<id>"})
    IN  IF k + 1 < j THEN s[k + 1] ELSE "none"

\* step 1 of _update_project_sources_comprehensive on well-formed text: the
\* <datasource> of every <maplayer> whose id is in new_sources gets its new
\* source
RECURSIVE UpdateMaplayersFrom(_, _, _)
UpdateMaplayersFrom(s, i, new_sources) ==
    IF i > Len(s) THEN <<>>
    ELSE IF s[i] = "<maplayer>"
         THEN LET j == FirstIn(s, i, {"</maplayer>"})
                  a == FirstIn(s, i, {DsOpen})
                  b == FirstIn(s, i, {DsClose})
              IN  IF MaplayerId(s, i, j) \in new_sources /\ a < b /\ b < j
                  THEN Slice(s, i, a) \o NewSource(MaplayerId(s, i, j))
                       \o Slice(s, b, j) \o UpdateMaplayersFrom(s, j + 1, new_sources)
                  ELSE Slice(s, i, j) \o UpdateMaplayersFrom(s, j + 1, new_sources)
         ELSE <<s[i]>> \o UpdateMaplayersFrom(s, i + 1, new_sources)

\* ArchiveProjectTab._update_project_sources_comprehensive: the file after
\* the call and whether the exception handler ran.  The cleaned content is
\* written only at the end of the try block, so nothing is written when
\* ET.fromstring or the final open(..., 'w') raises.
UpdateProjectSourcesComprehensive(file, new_sources) ==
    LET content == CleanCredentialsFromContent(file.text)
    IN  IF ~XmlWellFormed(content) \/ file.readonly
        THEN [file |-> file, raised |-> TRUE]
        ELSE [file |-> [file EXCEPT !.text = <<"<?xml?>", "\n">>
                                      \o UpdateMaplayersFrom(content, 1, new_sources)],
              raised |-> FALSE]

-----------------------------------------------------------------------------
(* ArchiveProjectTab: the project that is archived *)

\* datasource strings of the layers: those of DsForms, and one whose last
\* parameter is a bare user
LayerDsForms == DsForms \cup {<<"dbname=", "'", "a", "'", " ", "user=", "a">>}

LayerIds == <<"L1", "L2", "L3">>

\* a layer is [id, vector, ds]: a vector layer is exported to the
\* geopackage, any other layer (raster, mesh) is not
LayerKinds == [vector : BOOLEAN, ds : LayerDsForms]

RECURSIVE RenderLayers(_)
RenderLayers(ls) ==
    IF ls = <<>> THEN <<>>
    ELSE <<"<maplayer>", "<id>", Head(ls).id, "</id>", "\n">>
         \o WrapDs(Head(ls).ds) \o <<"\n", "</maplayer>", "\n">>
         \o RenderLayers(Tail(ls))

\* the .qgs file QGIS saved for the layers
RenderQgs(ls) == <<"<qgis>", "\n">> \o RenderLayers(ls) \o <<"</qgis>">>

WithIds(kinds) ==
    [i \in 1..Len(kinds) |->
        [id |-> LayerIds[i], vector |-> kinds[i].vector, ds |-> kinds[i].ds]]

ArchInit ==
    /\ archPc = "idle"
    /\ \E kinds \in SeqsUpTo(LayerKinds, MaxLayers) : project_layers = WithIds(kinds)
    /\ \E ro \in BOOLEAN :
          project_file = [text |-> RenderQgs(project_layers), readonly |-> ro]
    /\ export_file = [exists |-> FALSE, text |-> <<>>, readonly |-> FALSE]
    /\ layer_idx = 0
    /\ new_layer_sources = {}
    /\ update_raised = FALSE
    /\ project_archived = 0

\* the tab with no project open
ArchIdle ==
    /\ archPc = "idle"
    /\ project_layers = <<>>
    /\ project_file = [text |-> <<>>, readonly |-> FALSE]
    /\ export_file = [exists |-> FALSE, text |-> <<>>, readonly |-> FALSE]
    /\ layer_idx = 0
    /\ new_layer_sources = {}
    /\ update_raised = FALSE
    /\ project_archived = 0

\* _on_archive_project, steps 1-3: the checks pass, the user confirms, the
\* project directory is copied and shutil.copy2 copies the project file
\* (content and permission bits) to <project>_portable.qgs
ArchiveStart ==
    /\ UNCHANGED notArch
    /\ archPc = "idle"
    /\ archPc' = "export"
    /\ export_file' = [exists |-> TRUE, text |-> project_file.text,
                       readonly |-> project_file.readonly]
    /\ layer_idx' = 0
    /\ new_layer_sources' = {}
    /\ UNCHANGED <<project_layers, project_file, update_raised, project_archived>>

\* step 4, one iteration of the loop over mapLayers(): a vector layer is
\* written to data.gpkg and, when the writer reports NoError, recorded in
\* new_layer_sources; other layers are skipped
ArchiveExportLayer ==
    /\ UNCHANGED notArch
    /\ archPc = "export"
    /\ layer_idx < Len(project_layers)
    /\ layer_idx' = layer_idx + 1
    /\ LET layer == project_layers[layer_idx + 1]
       IN  IF layer.vector
           THEN \E no_error \in BOOLEAN :
                   new_layer_sources' = IF no_error
                                        THEN new_layer_sources \cup {layer.id}
                                        ELSE new_layer_sources
           ELSE UNCHANGED new_layer_sources
    /\ UNCHANGED <<archPc, project_layers, project_file, export_file,
                   update_raised, project_archived>>

\* step 5: the copied project file is rewritten only if new_layer_sources is
\* not empty
ArchiveUpdateProject ==
    /\ UNCHANGED notArch
    /\ archPc = "export"
    /\ layer_idx = Len(project_layers)
    /\ archPc' = "finish"
    /\ IF new_layer_sources # {}
       THEN LET r == UpdateProjectSourcesComprehensive(export_file, new_layer_sources)
            IN  /\ export_file' = r.file
                /\ update_raised' = r.raised
       ELSE UNCHANGED <<export_file, update_raised>>
    /\ UNCHANGED <<project_layers, project_file, layer_idx, new_layer_sources,
                   project_archived>>

\* steps 6-8 and the emission of project_archived.  The generated projects
\* hold no CSV layer, so _try_convert_csv_paths_to_relative returns 0 without
\* writing.
ArchiveFinish ==
    /\ UNCHANGED notArch
    /\ archPc = "finish"
    /\ archPc' = "done"
    /\ project_archived' = project_archived + 1
    /\ UNCHANGED <<project_layers, project_file, export_file, layer_idx,
                   new_layer_sources, update_raised>>

\* an exception in the try block (a copy fails, the report cannot be
\* written): logged by "Error creating archive", nothing is emitted
ArchiveFail ==
    /\ UNCHANGED notArch
    /\ archPc \in {"export", "finish"}
    /\ archPc' = "done"
    /\ UNCHANGED <<project_layers, project_file, export_file, layer_idx,
                   new_layer_sources, update_raised, project_archived>>

ArchNext ==
    \/ ArchiveStart
    \/ ArchiveExportLayer
    \/ ArchiveUpdateProject
    \/ ArchiveFinish
    \/ ArchiveFail

-----------------------------------------------------------------------------
(* Claims about ArchiveProjectTab._on_archive_project (under SpecArchive) *)

\* C2: whenever _on_archive_project emitted project_archived, the exported
\* <project>_portable.qgs holds no user= and no password= parameter.
C2_NoCredentialsInPortable ==
    project_archived > 0 =>
        /\ export_file.exists
        /\ CredentialFree(export_file.text)

-----------------------------------------------------------------------------
(* The PostgreSQL server *)

\* the database names of the model; "Template0" is a database created with
\* a quoted mixed-case name, "new" does not exist yet
DbNames == {"postgres", "template1", "Template0", "app", "tpl", "new"}

\* str.lower()
Lower(n) ==
    CASE n = "Template0" -> "template0"
      [] n = "QGS" -> "qgs"
      [] OTHER -> n

Total(f) ==
    LET RECURSIVE Sum(_)
        Sum(S) == IF S = {} THEN 0
                  ELSE LET x == CHOOSE x \in S : TRUE IN f[x] + Sum(S \ {x})
    IN  Sum(DOMAIN f)

\* DROP DATABASE "db", sent on a connection to postgres, succeeds
CanDrop(cat, ses, db) ==
    /\ cat[db] = "db"          \* it exists and is no template
    /\ ses[db] = 0             \* nobody else is connected
    /\ db # "postgres"         \* not the database of the issuing connection

\* CREATE DATABASE "new" WITH TEMPLATE "src" succeeds
CanCreate(cat, ses, new, src) ==
    /\ cat[new] = "absent"
    /\ cat[src] # "absent"
    /\ ses[src] = 0

\* pg_database at the start: template1 and tpl are templates, "new" does not
\* exist, the others are ordinary databases
InitialCatalog ==
    [d \in DbNames |->
        CASE d \in {"template1", "tpl"} -> "template"
          [] d = "new" -> "absent"
          [] OTHER -> "db"]

Tbl(schema, table) == [schema |-> schema, table |-> table]

\* pg_tables outside information_schema, pg_catalog and pg_toast; every
\* database of the model has these three tables
UserTables ==
    {Tbl("listen", "events"), Tbl("public", "qgis_projects"), Tbl("public", "t1")}

\* the rows at the start: the tables of app hold rows, the others are empty
InitialRows ==
    [d \in DbNames |-> [t \in UserTables |-> IF d = "app" THEN 1 ELSE 0]]

NoRows == [t \in UserTables |-> 0]

\* the foreign keys a schema can have: none, or listen.events referencing
\* public.t1
FkChoices == {{}, {<<Tbl("listen", "events"), Tbl("public", "t1")>>}}

\* the tables TRUNCATE TABLE t CASCADE empties: t and every table that
\* references one of them through a foreign key
RECURSIVE CascadeFrom(_, _)
CascadeFrom(fk, S) ==
    LET more == S \cup {p[1] : p \in {q \in fk : q[2] \in S}}
    IN  IF more = S THEN S ELSE CascadeFrom(fk, more)

\* TRUNCATE TABLE t CASCADE on the tables r of one database
TruncateCascade(r, fk, t) ==
    [x \in UserTables |-> IF x \in CascadeFrom(fk, {t}) THEN 0 ELSE r[x]]

\* a client other than the plugin connects to a database; the server is
\* followed until the operation of the manager has returned
SessionConnect ==
    /\ UNCHANGED notDb
    /\ UNCHANGED <<rows, fks, open_connections>>
    /\ dbPc # "returned"
    /\ \E d \in DbNames :
          /\ catalog[d] # "absent"
          /\ Total(sessions) < MaxSessions
          /\ sessions' = [sessions EXCEPT ![d] = @ + 1]
    /\ UNCHANGED <<catalog, conn_db, call, dbPc, connection_count, seen_sessions, seen_remaining,
                   stmts, emitted, ret>>

\* a client other than the plugin disconnects
SessionDisconnect ==
    /\ UNCHANGED notDb
    /\ UNCHANGED <<rows, fks, open_connections>>
    /\ dbPc # "returned"
    /\ \E d \in DbNames :
          /\ sessions[d] > 0
          /\ sessions' = [sessions EXCEPT ![d] = @ - 1]
    /\ UNCHANGED <<catalog, conn_db, call, dbPc, connection_count, seen_sessions, seen_remaining,
                   stmts, emitted, ret>>

-----------------------------------------------------------------------------
(* DatabaseManager: the administrative operations of database_manager.py *)

SystemDatabases == {"postgres", "template0", "template1"}

\* the mutant of IsSystemDatabase: the name is compared without lower()
IsSystemDatabaseCaseSensitive(db_name) == db_name \in SystemDatabases

\* DatabaseManager.is_system_database
IsSystemDatabase(db_name) == Lower(db_name) \in SystemDatabases

\* get_databases: the names its query selects
GetDatabases(cat) ==
    {d \in DbNames : cat[d] = "db" /\ d \notin {"postgres", "template0", "template1"}}

\* get_templates: the names its query selects
GetTemplates(cat) ==
    {d \in DbNames : cat[d] = "template" /\ d \notin {"template0", "template1"}}

\* the mutant of CreatedAs: IS_TEMPLATE = true is left out
CreatedAsDatabase(op) == "db"

\* what the CREATE DATABASE statement of a create operation makes:
\* create_template adds IS_TEMPLATE = true
CreatedAs(op) == IF op = "create_template" THEN "template" ELSE "db"

\* A connection that goes out of scope without close(): psycopg2 closes it
\* when the interpreter reclaims the object, which Python leaves unspecified;
\* it is counted 0 when it was reclaimed before the return and 1 otherwise.
Unclosed == {0, 1}

\* the tables create_template reads from pg_tables,
\* ORDER BY schemaname, tablename
PgTables == <<Tbl("listen", "events"), Tbl("public", "qgis_projects"), Tbl("public", "t1")>>

\* create_template, the two "continue" branches of the table loop
Preserved(t, preserve_qgis_projects, excluded_schemas) ==
    \/ t.schema \in Range(excluded_schemas)
    \/ preserve_qgis_projects /\ t.table = "qgis_projects"

\* create_template, the table loop: every table that is not preserved is
\* truncated with CASCADE; a TRUNCATE that raises (the tables of failed) is
\* logged as a warning and the loop goes on
RECURSIVE ClearTables(_, _, _, _, _, _)
ClearTables(r, fk, tables, preserve_qgis_projects, excluded_schemas, failed) ==
    IF tables = <<>> THEN r
    ELSE LET t == Head(tables)
             r1 == IF Preserved(t, preserve_qgis_projects, excluded_schemas) \/ t \in failed
                   THEN r
                   ELSE TruncateCascade(r, fk, t)
         IN  ClearTables(r1, fk, Tail(tables), preserve_qgis_projects, excluded_schemas,
                         failed)

\* truncate_schema_tables, the loop: TRUNCATE TABLE schema.table CASCADE for
\* each name of the list; done holds the positions whose statement succeeded
RECURSIVE TruncateTables(_, _, _, _, _, _)
TruncateTables(r, fk, schema_name, table_names, i, done) ==
    IF i > Len(table_names) THEN r
    ELSE LET r1 == IF i \in done
                   THEN TruncateCascade(r, fk, Tbl(schema_name, table_names[i]))
                   ELSE r
         IN  TruncateTables(r1, fk, schema_name, table_names, i + 1, done)

\* delete_database / create_*: "if remaining_connections > 0"
RecountBlocks(remaining_connections) == remaining_connections > 0

CreateOps == {"create_template", "create_database_from_template",
              "create_database_from_database"}

TableLists == {<<>>, <<"t1">>, <<"t1", "qgis_projects">>}

NoTables == <<>>

\* the values of excluded_schemas: the field left empty, or its default
ExcludedSchemas == {<<>>, <<"listen">>}

\* the arguments every call has; the operations that do not take one of them
\* are called with these
Args == [force |-> FALSE, tables |-> NoTables, schema |-> "public",
         preserve_qgis_projects |-> FALSE, excluded_schemas |-> <<>>]

Call(op, a, b, args) ==
    [op |-> op, a |-> a, b |-> b, force |-> args.force, tables |-> args.tables,
     schema |-> args.schema, preserve_qgis_projects |-> args.preserve_qgis_projects,
     excluded_schemas |-> args.excluded_schemas]

\* the calls the tabs can make
Calls ==
    {Call("test_connection", "postgres", "postgres", Args)}
    \cup {Call("delete_database", d, d, [Args EXCEPT !.force = f]) :
            d \in DbNames, f \in BOOLEAN}
    \cup {Call("create_template", d, t,
                [Args EXCEPT !.preserve_qgis_projects = p, !.excluded_schemas = x]) :
            d \in DbNames \ {"new"}, t \in {"new", "app", "tpl"},
            p \in BOOLEAN, x \in ExcludedSchemas}
    \cup {Call(o, d, t, Args) :
            o \in CreateOps \ {"create_template"},
            d \in DbNames \ {"new"}, t \in {"new", "app", "tpl"}}
    \cup {Call("delete_template", d, d, Args) : d \in DbNames}
    \cup {Call("truncate_schema_tables", "app", "app", [Args EXCEPT !.tables = ts]) :
            ts \in TableLists}

NoCall == Call("none", "postgres", "postgres", Args)

Stmt(s, n) == [s |-> s, n |-> n]

DbInit ==
    /\ catalog = InitialCatalog
    /\ sessions = [d \in DbNames |-> 0]
    /\ conn_db \in {"postgres", "app"}
    /\ call = NoCall
    /\ dbPc = "idle"
    /\ connection_count = 0
    /\ seen_sessions = -1
    /\ seen_remaining = -1
    /\ stmts = <<>>
    /\ emitted = <<>>
    /\ ret = "none"
    /\ rows = InitialRows
    /\ fks \in FkChoices
    /\ open_connections = 0

\* the manager as constructed, with no server modelled
DbIdle ==
    /\ catalog = [d \in DbNames |-> "absent"]
    /\ sessions = [d \in DbNames |-> 0]
    /\ conn_db = "postgres"
    /\ call = NoCall
    /\ dbPc = "idle"
    /\ connection_count = 0
    /\ seen_sessions = -1
    /\ seen_remaining = -1
    /\ stmts = <<>>
    /\ emitted = <<>>
    /\ ret = "none"
    /\ rows = [d \in DbNames |-> NoRows]
    /\ fks = {}
    /\ open_connections = 0

\* operation_finished.emit(ok, msg); return ok
ReturnEmit(ok) ==
    /\ dbPc' = "returned"
    /\ emitted' = Append(emitted, ok)
    /\ ret' = IF ok THEN "true" ELSE "false"

\* an exception leaves the method: nothing is emitted, nothing is returned
RaiseOut ==
    /\ dbPc' = "returned"
    /\ emitted' = emitted
    /\ ret' = "raised"

\* a tab calls an operation of the manager
DbCall ==
    /\ UNCHANGED notDb
    /\ UNCHANGED <<rows, fks, open_connections>>
    /\ dbPc = "idle"
    /\ \E c \in Calls :
          /\ call' = c
          /\ dbPc' = CASE c.op = "delete_database" -> "exists"
                       [] c.op \in CreateOps -> "count"
                       [] OTHER -> "exec"
    /\ UNCHANGED <<catalog, sessions, conn_db, connection_count, seen_sessions, seen_remaining,
                   stmts, emitted, ret>>

\* test_connection
TestConnection ==
    /\ UNCHANGED notDb
    /\ UNCHANGED <<rows, fks, open_connections>>
    /\ dbPc = "exec" /\ call.op = "test_connection"
    /\ \E connects \in BOOLEAN : ReturnEmit(connects)
    /\ UNCHANGED <<catalog, sessions, conn_db, call, connection_count,
                   seen_sessions, seen_remaining, stmts>>

\* delete_database, the safety checks: database_exists (False also when its
\* query fails), is_system_database, the currently connected database, and
\* get_database_info (read only)
DeleteSafetyChecks ==
    /\ UNCHANGED notDb
    /\ UNCHANGED <<rows, fks, open_connections>>
    /\ dbPc = "exists" /\ call.op = "delete_database"
    /\ \E query_fails \in BOOLEAN :
          LET exists == ~query_fails /\ catalog[call.a] # "absent"
          IN  IF ~exists THEN ReturnEmit(FALSE)
              ELSE IF IsSystemDatabase(call.a) THEN ReturnEmit(FALSE)
              ELSE IF conn_db = call.a THEN ReturnEmit(FALSE)
              ELSE dbPc' = "count" /\ UNCHANGED <<emitted, ret>>
    /\ UNCHANGED <<catalog, sessions, conn_db, call, connection_count,
                   seen_sessions, seen_remaining, stmts>>

\* get_connection_count(call.a) at the start of delete_database and of the
\* create operations: the count, or 0 when the connection or the query fails
CountConnections ==
    /\ UNCHANGED notDb
    /\ UNCHANGED <<rows, fks, open_connections>>
    /\ dbPc = "count"
    /\ \E query_fails \in BOOLEAN :
          LET n == IF query_fails THEN 0 ELSE sessions[call.a]
          IN  /\ connection_count' = n
              /\ stmts' = Append(stmts, Stmt("count", n))
              /\ IF n > 0
                 THEN IF call.op = "delete_database" /\ ~call.force
                      THEN ReturnEmit(FALSE)
                      ELSE dbPc' = "terminate" /\ UNCHANGED <<emitted, ret>>
                 ELSE dbPc' = "exec" /\ UNCHANGED <<emitted, ret>>
    /\ seen_sessions' = sessions[call.a]
    /\ UNCHANGED <<catalog, sessions, conn_db, call, seen_remaining>>

\* drop_database_connections(call.a): the connection fails, or the
\* pg_terminate_backend query is sent and fails, or it is sent and ends any
\* number of the sessions.  delete_database returns False on failure; the
\* create operations raise Exception, which their "except psycopg2.Error"
\* does not catch.  The connection is closed only after the query returned.
TerminateConnections ==
    /\ UNCHANGED notDb
    /\ dbPc = "terminate"
    /\ \/ \* psycopg2.connect raises
          /\ IF call.op = "delete_database" THEN ReturnEmit(FALSE) ELSE RaiseOut
          /\ UNCHANGED <<sessions, stmts, open_connections>>
       \/ \* the query raises
          /\ IF call.op = "delete_database" THEN ReturnEmit(FALSE) ELSE RaiseOut
          /\ stmts' = Append(stmts, Stmt("terminate", 0))
          /\ \E unclosed \in Unclosed : open_connections' = open_connections + unclosed
          /\ UNCHANGED sessions
       \/ \* the query returns
          /\ \E left \in 0..sessions[call.a] :
                sessions' = [sessions EXCEPT ![call.a] = left]
          /\ stmts' = Append(stmts, Stmt("terminate", 1))
          /\ dbPc' = "recount"
          /\ UNCHANGED <<emitted, ret, open_connections>>
    /\ UNCHANGED <<catalog, conn_db, call, connection_count, seen_sessions, seen_remaining,
                   rows, fks>>

\* time.sleep(1); remaining_connections = get_connection_count(call.a)
RecountConnections ==
    /\ UNCHANGED notDb
    /\ UNCHANGED <<rows, fks, open_connections>>
    /\ dbPc = "recount"
    /\ \E query_fails \in BOOLEAN :
          LET n == IF query_fails THEN 0 ELSE sessions[call.a]
          IN  /\ connection_count' = n
              /\ stmts' = stmts \o <<Stmt("sleep", 1), Stmt("count", n)>>
              /\ IF RecountBlocks(n)
                 THEN IF call.op = "delete_database" THEN ReturnEmit(FALSE) ELSE RaiseOut
                 ELSE dbPc' = "exec" /\ UNCHANGED <<emitted, ret>>
    /\ seen_remaining' = sessions[call.a]
    /\ UNCHANGED <<catalog, sessions, conn_db, call, seen_sessions>>

\* delete_database, the deletion: connect to postgres and send DROP DATABASE;
\* the connection is closed after the statement, not when it raises
DeleteDrop ==
    /\ UNCHANGED notDb
    /\ dbPc = "exec" /\ call.op = "delete_database"
    /\ \/ \* psycopg2.connect raises
          /\ ReturnEmit(FALSE)
          /\ UNCHANGED <<catalog, stmts, rows, open_connections>>
       \/ \* DROP DATABASE is sent
          /\ stmts' = Append(stmts, Stmt("drop", 0))
          /\ \E accepted \in {CanDrop(catalog, sessions, call.a), FALSE} :
                IF accepted
                THEN /\ catalog' = [catalog EXCEPT ![call.a] = "absent"]
                     /\ rows' = [rows EXCEPT ![call.a] = NoRows]
                     /\ UNCHANGED open_connections
                     /\ ReturnEmit(TRUE)
                ELSE /\ UNCHANGED <<catalog, rows>>
                     /\ \E unclosed \in Unclosed :
                           open_connections' = open_connections + unclosed
                     /\ ReturnEmit(FALSE)
    /\ UNCHANGED <<sessions, conn_db, call, connection_count, seen_sessions, seen_remaining,
                   fks>>

\* create_template, create_database_from_template and
\* create_database_from_database after the connection check: connect to
\* postgres, DROP DATABASE call.b when database_exists says it exists (it
\* says False when its own query fails), CREATE DATABASE call.b WITH TEMPLATE
\* call.a, which copies the tables and their rows, then COMMENT ON DATABASE
\* and close.  create_template goes on: it connects to the template, reads
\* pg_tables, runs the table loop and closes.  Every psycopg2.Error outside
\* the table loop ends the method with operation_finished(False) and without
\* close().
CreateExec ==
    /\ UNCHANGED notDb
    /\ dbPc = "exec" /\ call.op \in CreateOps
    /\ \/ \* psycopg2.connect raises
          /\ ReturnEmit(FALSE)
          /\ UNCHANGED <<catalog, stmts, rows, open_connections>>
       \/ \E exists_fails \in BOOLEAN, rest_ok \in BOOLEAN :
            LET drops == ~exists_fails /\ catalog[call.b] # "absent"
                dropped == drops /\ CanDrop(catalog, sessions, call.b)
                cat1 == IF dropped THEN [catalog EXCEPT ![call.b] = "absent"] ELSE catalog
                created == (drops => dropped) /\ CanCreate(cat1, sessions, call.b, call.a)
                cat2 == IF created
                        THEN [cat1 EXCEPT ![call.b] = CreatedAs(call.op)]
                        ELSE cat1
                ok == created /\ rest_ok
                rows1 == IF dropped THEN [rows EXCEPT ![call.b] = NoRows] ELSE rows
                rows2 == IF created THEN [rows1 EXCEPT ![call.b] = rows1[call.a]] ELSE rows1
            IN  /\ catalog' = cat2
                /\ stmts' = stmts
                            \o (IF drops THEN <<Stmt("drop", 0)>> ELSE <<>>)
                            \o (IF drops => dropped THEN <<Stmt("create", 0)>> ELSE <<>>)
                /\ IF ~ok
                   THEN \* a statement raised: no close()
                        /\ rows' = rows2
                        /\ \E unclosed \in Unclosed :
                              open_connections' = open_connections + unclosed
                   ELSE IF call.op = "create_template"
                   THEN \* the table loop, then close()
                        /\ \E failed \in SUBSET UserTables :
                              rows' = [rows2 EXCEPT ![call.b] =
                                         ClearTables(@, fks, PgTables,
                                                     call.preserve_qgis_projects,
                                                     call.excluded_schemas, failed)]
                        /\ UNCHANGED open_connections
                   ELSE /\ rows' = rows2
                        /\ UNCHANGED open_connections
                /\ ReturnEmit(ok)
    /\ UNCHANGED <<sessions, conn_db, call, connection_count, seen_sessions, seen_remaining,
                   fks>>

\* delete_template: connect to postgres, clear datistemplate, DROP DATABASE,
\* close; no close() when a statement raises
DeleteTemplateExec ==
    /\ UNCHANGED notDb
    /\ dbPc = "exec" /\ call.op = "delete_template"
    /\ \/ \* psycopg2.connect raises
          /\ ReturnEmit(FALSE)
          /\ UNCHANGED <<catalog, stmts, rows, open_connections>>
       \/ \* the UPDATE of pg_database raises
          /\ ReturnEmit(FALSE)
          /\ stmts' = Append(stmts, Stmt("update", 0))
          /\ \E unclosed \in Unclosed : open_connections' = open_connections + unclosed
          /\ UNCHANGED <<catalog, rows>>
       \/ \* the UPDATE is done, DROP DATABASE is sent
          \E unclosed \in Unclosed :
            LET cat1 == [catalog EXCEPT ![call.a] = IF @ = "template" THEN "db" ELSE @]
                dropped == CanDrop(cat1, sessions, call.a)
            IN  /\ catalog' = IF dropped THEN [cat1 EXCEPT ![call.a] = "absent"] ELSE cat1
                /\ rows' = IF dropped THEN [rows EXCEPT ![call.a] = NoRows] ELSE rows
                /\ stmts' = stmts \o <<Stmt("update", 1), Stmt("drop", 0)>>
                /\ open_connections' = IF dropped THEN open_connections
                                       ELSE open_connections + unclosed
                /\ ReturnEmit(dropped)
    /\ UNCHANGED <<sessions, conn_db, call, connection_count, seen_sessions, seen_remaining,
                   fks>>

\* truncate_schema_tables: connect to the database, TRUNCATE ... CASCADE each
\* table of the list, each of which may fail on its own; True when one
\* succeeded; the finally clause closes the connection
TruncateExec ==
    /\ UNCHANGED notDb
    /\ dbPc = "exec" /\ call.op = "truncate_schema_tables"
    /\ \/ \* psycopg2.connect raises
          /\ ReturnEmit(FALSE)
          /\ UNCHANGED <<stmts, rows>>
       \/ \E done \in SUBSET (1..Len(call.tables)) :
            /\ stmts' = stmts \o [i \in 1..Len(call.tables) |->
                                    Stmt("truncate", IF i \in done THEN 1 ELSE 0)]
            /\ rows' = [rows EXCEPT ![call.a] =
                           TruncateTables(@, fks, call.schema, call.tables, 1, done)]
            /\ ReturnEmit(Cardinality(done) > 0)
    /\ UNCHANGED <<catalog, sessions, conn_db, call, connection_count, seen_sessions,
                   seen_remaining, fks, open_connections>>

DbNext ==
    \/ SessionConnect
    \/ SessionDisconnect
    \/ DbCall
    \/ TestConnection
    \/ DeleteSafetyChecks
    \/ CountConnections
    \/ TerminateConnections
    \/ RecountConnections
    \/ DeleteDrop
    \/ CreateExec
    \/ DeleteTemplateExec
    \/ TruncateExec

-----------------------------------------------------------------------------
(* DatabaseManager: the claims *)

Sent(s) == \E i \in 1..Len(stmts) : stmts[i].s = s

\* pg_terminate_backend was sent and the query returned
Terminated == \E i \in 1..Len(stmts) : stmts[i] = Stmt("terminate", 1)

\* C3: for every database name whose lower-case form is postgres, template0
\* or template1, delete_database returns False and sends neither DROP
\* DATABASE nor pg_terminate_backend, with force False and with force True.
C3_SystemDatabasesAreNeverDropped ==
    (call.op = "delete_database" /\ Lower(call.a) \in {"postgres", "template0", "template1"})
        => /\ ~Sent("drop")
           /\ ~Sent("terminate")
           /\ dbPc = "returned" => ret = "false"

\* C3 happens: the deletion of an existing system database that is not
\* written in lower case was forced and has returned False.
C3_Witness ==
    /\ call.op = "delete_database"
    /\ call.a = "Template0"
    /\ catalog["Template0"] = "db"
    /\ sessions["Template0"] > 0
    /\ call.force
    /\ dbPc = "returned"
    /\ ret = "false"

\* C4: delete_database with force False returns False, emits
\* operation_finished(False) and sends neither pg_terminate_backend nor DROP
\* DATABASE whenever another session is connected to the database when the
\* check is made, also when the connection-count query itself fails.
C4_NoForceNoDropWhileConnected ==
    (call.op = "delete_database" /\ ~call.force /\ seen_sessions >= 1)
        => /\ ~Sent("drop")
           /\ ~Sent("terminate")
           /\ dbPc = "returned" => (ret = "false" /\ emitted = <<FALSE>>)

\* C5: delete_database with force True on a database that has sessions
\* terminates them, waits, counts again, and sends DROP DATABASE only when
\* the re-count is 0, in that order; when terminating fails or sessions
\* remain it returns False and DROP DATABASE is never sent.
C5_ForceTerminatesThenRecounts ==
    (call.op = "delete_database" /\ call.force /\ seen_sessions >= 1)
        => /\ \A i \in 1..Len(stmts) :
                 stmts[i].s = "drop"
                    => /\ i = 5
                       /\ stmts[2] = Stmt("terminate", 1)
                       /\ stmts[3].s = "sleep"
                       /\ stmts[4] = Stmt("count", 0)
                       /\ seen_remaining = 0
           /\ (dbPc = "returned" /\ (~Terminated \/ seen_remaining >= 1))
                 => (ret = "false" /\ ~Sent("drop"))

\* C6: every administrative operation returns a boolean and emits
\* operation_finished exactly once, with that boolean; no exception
\* escapes, also when terminating sessions fails or sessions remain.
C6_OneBooleanOneSignal ==
    dbPc = "returned"
        => /\ ret \in {"true", "false"}
           /\ emitted = <<ret = "true">>

\* C15: after create_template(source, t) returned True, t exists with
\* datistemplate true, get_templates lists it and get_databases does not;
\* after create_database_from_template(t, d) returned True, d exists with
\* datistemplate false and the template t is still a template.
C15_TemplateThenDatabase ==
    /\ (call.op = "create_template" /\ dbPc = "returned" /\ ret = "true")
          => /\ catalog[call.b] = "template"
             /\ call.b \in GetTemplates(catalog)
             /\ call.b \notin GetDatabases(catalog)
    /\ (/\ call.op = "create_database_from_template"
        /\ InitialCatalog[call.a] = "template"
        /\ dbPc = "returned" /\ ret = "true")
          => /\ catalog[call.b] = "db"
             /\ call.b \in GetDatabases(catalog)
             /\ catalog[call.a] = "template"

\* C15 happens: create_template has made the template "new" from app, after
\* it ended the sessions on app, and has returned True.
C15_Witness ==
    /\ call.op = "create_template"
    /\ call.a = "app"
    /\ call.b = "new"
    /\ seen_sessions >= 1
    /\ Terminated
    /\ Sent("create")
    /\ dbPc = "returned"
    /\ ret = "true"

\* C16: after create_template(source, t, preserve_qgis_projects = P,
\* excluded_schemas = S) returned True, in t every table of a schema of S,
\* and every qgis_projects table when P, holds the rows it holds in source,
\* and every other user table is empty, whatever foreign keys link the tables.
C16_PreservedRowsOnly ==
    (call.op = "create_template" /\ dbPc = "returned" /\ ret = "true")
        => \A t \in UserTables :
              rows[call.b][t] =
                 IF Preserved(t, call.preserve_qgis_projects, call.excluded_schemas)
                 THEN rows[call.a][t]
                 ELSE 0

\* C17: truncate_schema_tables(db, schema, tables) removes rows only from the
\* tables of the list in the selected schema: every other table of db, and
\* every table of another database, keeps its rows.
C17_OnlyListedTablesTruncated ==
    (call.op = "truncate_schema_tables" /\ dbPc = "returned")
        => \A d \in DbNames, t \in UserTables :
              (d = call.a /\ t.schema = call.schema /\ t.table \in Range(call.tables))
                 \/ rows[d][t] = InitialRows[d][t]

\* C18: every connection an operation of the manager opened is closed when
\* the operation has returned, on the success path and on every error path.
C18_ConnectionsClosedAtReturn ==
    dbPc = "returned" => open_connections = 0

-----------------------------------------------------------------------------
(* DatabaseManager: the project stored in a qgis_projects table *)

\* A stored content is the bytes pre followed, when zip is TRUE, by a ZIP
\* archive with the members in archive order.  The bytes of pre are "P", "K"
\* and "x" (any other byte); a ZIP archive starts with the bytes PK.
\* A member is [dir, stem, ext, data]: dir is "" at the archive root, data is
\* the list of the <datasource> texts of a project file, each a sequence of
\* lexical atoms: words (\w+), "=", "'", "\"", ".", " ", "(" and ")".
Member(d, st, e, dat) == [dir |-> d, stem |-> st, ext |-> e, data |-> dat]

Bytes(p, z, ms) == [pre |-> p, zip |-> z, members |-> ms]

\* b'' and None
NoContent == Bytes(<<>>, FALSE, <<>>)

\* the mutant of FindPK: the bytes in front of the archive are not searched
FindPKSkipped(pre) == -1

\* the 0-based index bytes.find(b'PK') within pre, or -1
FindPK(pre) ==
    LET hits == {i \in 1..(Len(pre) - 1) : pre[i] = "P" /\ pre[i + 1] = "K"}
    IN  IF hits = {} THEN -1 ELSE (CHOOSE i \in hits : \A j \in hits : i <= j) - 1

\* _clean_and_preserve_zip_content: [ok, clean, prefix]
CleanAndPreserveZipContent(c) ==
    IF c.pre = <<>> /\ ~c.zip
    THEN [ok |-> FALSE, clean |-> NoContent, prefix |-> <<>>]
    ELSE LET zip_start == IF FindPK(c.pre) >= 0 THEN FindPK(c.pre)
                          ELSE IF c.zip THEN Len(c.pre) ELSE -1
         IN  IF zip_start = -1
             THEN [ok |-> FALSE, clean |-> NoContent, prefix |-> <<>>]
             ELSE [ok |-> TRUE,
                   clean |-> Bytes(SubSeq(c.pre, zip_start + 1, Len(c.pre)), c.zip, c.members),
                   prefix |-> SubSeq(c.pre, 1, zip_start)]

\* zipfile.is_zipfile: an archive is found at the end of the bytes, whatever
\* precedes it
IsZipfile(c) == c.zip

\* the atoms that are not made of \w characters
WordBreak == {"=", "'", "\"", ".", " ", "\n", "(", ")"}

IsWord(x) == x \notin WordBreak

\* the length of the match at i of (\w+)='([^']*)' when q is "'", of
\* (\w+)="([^"]*)" when q is "\"", of (\w+)=([^\s'"]+) when q is "", or 0
ParamMatchLen(s, i, q) ==
    IF i + 1 > Len(s) \/ ~IsWord(s[i]) \/ s[i + 1] # "="
    THEN 0
    ELSE IF q = ""
    THEN LET e == FirstIn(s, i + 2, WS \cup QuoteChars)
         IN  IF e > i + 2 THEN e - i ELSE 0
    ELSE IF i + 2 <= Len(s) /\ s[i + 2] = q
    THEN LET e == FirstIn(s, i + 3, {q})
         IN  IF e <= Len(s) THEN e - i + 1 ELSE 0
    ELSE 0

\* the second group of that match
ParamMatchValue(s, i, q) ==
    IF q = "" THEN Slice(s, i + 2, i + ParamMatchLen(s, i, q) - 1)
    ELSE Slice(s, i + 3, i + ParamMatchLen(s, i, q) - 2)

\* re.findall(pattern, s): the (key, value) pairs, left to right
RECURSIVE FindAllParamsFrom(_, _, _)
FindAllParamsFrom(s, i, q) ==
    IF i > Len(s) THEN <<>>
    ELSE IF ParamMatchLen(s, i, q) > 0
    THEN <<[key |-> s[i], value |-> ParamMatchValue(s, i, q)]>>
         \o FindAllParamsFrom(s, i + ParamMatchLen(s, i, q), q)
    ELSE FindAllParamsFrom(s, i + 1, q)

\* a dict is the sequence of its (key, value) items in insertion order
DictKeys(items) == {items[i].key : i \in 1..Len(items)}

DictGet(items, k) == items[CHOOSE i \in 1..Len(items) : items[i].key = k].value

DictSet(items, k, v) ==
    [i \in 1..Len(items) |-> IF items[i].key = k THEN [items[i] EXCEPT !.value = v]
                             ELSE items[i]]

\* "if key not in params: params[key] = value" over a list of matches
RECURSIVE FirstOfEachKey(_, _)
FirstOfEachKey(matches, seen) ==
    IF matches = <<>> THEN <<>>
    ELSE IF Head(matches).key \in seen THEN FirstOfEachKey(Tail(matches), seen)
    ELSE <<Head(matches)>> \o FirstOfEachKey(Tail(matches), seen \cup {Head(matches).key})

\* _parse_datasource_simple: the single-quoted pairs, then the double-quoted
\* ones, then the bare ones; a key found earlier is not overwritten
ParseDatasourceSimple(datasource_content) ==
    FirstOfEachKey(FindAllParamsFrom(datasource_content, 1, "'")
                   \o FindAllParamsFrom(datasource_content, 1, "\"")
                   \o FindAllParamsFrom(datasource_content, 1, ""), {})

\* re.sub(key + pattern, key + "=" + quoted new_value, s)
RECURSIVE SubParamFrom(_, _, _, _, _)
SubParamFrom(s, i, key, q, new_value) ==
    IF i > Len(s) THEN <<>>
    ELSE IF s[i] = key /\ ParamMatchLen(s, i, q) > 0
    THEN <<key, "=">> \o (IF q = "" THEN new_value ELSE <<q>> \o new_value \o <<q>>)
         \o SubParamFrom(s, i + ParamMatchLen(s, i, q), key, q, new_value)
    ELSE <<s[i]>> \o SubParamFrom(s, i + 1, key, q, new_value)

\* the three patterns tried in turn for one key: the first whose result
\* differs from the text is kept
RebuildOneKey(result, key, new_value) ==
    IF SubParamFrom(result, 1, key, "'", new_value) # result
    THEN SubParamFrom(result, 1, key, "'", new_value)
    ELSE IF SubParamFrom(result, 1, key, "\"", new_value) # result
    THEN SubParamFrom(result, 1, key, "\"", new_value)
    ELSE SubParamFrom(result, 1, key, "", new_value)

\* _rebuild_datasource_simple: every key of the dict is written back, the
\* changed ones and the others alike
RECURSIVE RebuildDatasourceSimple(_, _)
RebuildDatasourceSimple(original_datasource, items) ==
    IF items = <<>> THEN original_datasource
    ELSE RebuildDatasourceSimple(
            RebuildOneKey(original_datasource, Head(items).key, Head(items).value),
            Tail(items))

ConnectionKeys == <<"dbname", "host", "port", "user", "password">>

\* the first index at which sep occurs in s, or 0  (str.find + 1)
FindSeq(s, sep) ==
    LET hits == {i \in 1..(Len(s) - Len(sep) + 1) : SubSeq(s, i, i + Len(sep) - 1) = sep}
    IN  IF hits = {} THEN 0 ELSE CHOOSE i \in hits : \A j \in hits : i <= j

\* the new value of the table parameter for a target schema, or the old one
RemapTable(table_value, schema) ==
    IF "." \notin Range(table_value) THEN table_value
    ELSE IF Head(table_value) = "\""
    THEN LET at == FindSeq(table_value, <<"\"", ".", "\"">>)
         IN  IF at = 0 THEN table_value
             ELSE <<"\"">> \o schema \o <<"\"", ".", "\"">>
                  \o Slice(table_value, at + 3, Len(table_value))
    ELSE schema \o <<".">>
         \o Slice(table_value, FindSeq(table_value, <<".">>) + 1, Len(table_value))

\* the body of the loop of _modify_qgs_datasources for one datasource
ModifyOneDatasource(datasource_content, params_to_change) ==
    LET original_params == ParseDatasourceSimple(datasource_content)
        RECURSIVE Apply(_, _)
        Apply(items, keys) ==
            IF keys = <<>> THEN items
            ELSE IF Head(keys) \in DOMAIN params_to_change /\ Head(keys) \in DictKeys(items)
            THEN Apply(DictSet(items, Head(keys), params_to_change[Head(keys)]), Tail(keys))
            ELSE Apply(items, Tail(keys))
        with_conn == Apply(original_params, ConnectionKeys)
        conn_changed == \E i \in 1..Len(ConnectionKeys) :
                            /\ ConnectionKeys[i] \in DOMAIN params_to_change
                            /\ ConnectionKeys[i] \in DictKeys(original_params)
        remaps == /\ "schema" \in DOMAIN params_to_change
                  /\ "table" \in DictKeys(with_conn)
                  /\ "." \in Range(DictGet(with_conn, "table"))
                  /\ (Head(DictGet(with_conn, "table")) = "\""
                        => FindSeq(DictGet(with_conn, "table"), <<"\"", ".", "\"">>) > 0)
        new_params_dict ==
            IF remaps
            THEN DictSet(with_conn, "table",
                         RemapTable(DictGet(with_conn, "table"), params_to_change["schema"]))
            ELSE with_conn
    IN  IF conn_changed \/ remaps
        THEN RebuildDatasourceSimple(datasource_content, new_params_dict)
        ELSE datasource_content

\* _modify_qgs_datasources: [raised, data].  new_value.strip() raises
\* AttributeError for the dict stored under 'schema_remapping'; the method
\* turns it into Exception.  Otherwise every datasource is rewritten with the
\* parameters whose stripped value is not empty.
ModifyQgsDatasources(data, params) ==
    IF "schema_remapping" \in DOMAIN params
    THEN [raised |-> TRUE, data |-> data]
    ELSE LET keys == {k \in DOMAIN params : Strip(params[k]) # <<>>}
             params_to_change == [k \in keys |-> Strip(params[k])]
         IN  [raised |-> FALSE,
              data |-> IF keys = {} THEN data
                       ELSE [i \in 1..Len(data) |->
                               ModifyOneDatasource(data[i], params_to_change)]]

\* the mutant of RootFiles: the sub-directories are walked as well
AllFiles(members) == members

\* os.path.isfile on an entry of the extraction directory: the members
\* extracted at the archive root, in archive order
RootFiles(members) == SelectSeq(members, LAMBDA m : m.dir = "")

\* f.lower().endswith('.qgs')
IsQgsName(m) == Lower(m.ext) = "qgs"

\* os.listdir(extract_dir): the entries in an order the file system decides
Listings(files) ==
    {[i \in 1..Len(files) |-> files[p[i]]] :
        p \in {q \in [1..Len(files) -> 1..Len(files)] :
                 \A i, j \in 1..Len(files) : q[i] = q[j] => i = j}}

\* _process_qgs_file: [ok, content]; listing is what os.listdir gave for
\* the files at the root, debug_dir whether a debug directory was writable
ProcessQgsFile(c, params, listing, debug_dir) ==
    LET cleaned == CleanAndPreserveZipContent(c)
        qgs_files == SelectSeq(listing, IsQgsName)
        Rewrite(m) == IF debug_dir /\ m = qgs_files[1]
                      THEN [m EXCEPT !.data = ModifyQgsDatasources(m.data, params).data]
                      ELSE m
    IN  IF ~cleaned.ok \/ ~IsZipfile(cleaned.clean) \/ qgs_files = <<>>
        THEN [ok |-> FALSE, content |-> NoContent]
        ELSE IF debug_dir /\ ModifyQgsDatasources(qgs_files[1].data, params).raised
        THEN [ok |-> FALSE, content |-> NoContent]
        ELSE [ok |-> TRUE,
              content |-> Bytes(<<>>, TRUE, [i \in 1..Len(listing) |-> Rewrite(listing[i])])]

\* ---- the inputs ----

Blob == <<<<"blob">>>>

PgQuoted == <<"dbname", "=", "'", "a", "'", " ", "table", "=", "\"", "s", "\"", ".", "\"", "t", "\"">>

PgBare == <<"dbname", "=", "a", " ", "table", "=", "s", ".", "t">>

FileLayer == <<"t", ".", "shp">>

MemberPool ==
    { Member("", "p", "qgs", <<PgQuoted, FileLayer>>),
      Member("", "q", "QGS", <<PgBare>>),
      Member("", "p", "qgd", Blob),
      Member("img", "a", "png", Blob),
      Member("sub", "s", "qgs", <<PgQuoted>>) }

Archives ==
    {ms \in SeqsUpTo(MemberPool, MaxMembers) :
        \A i, j \in 1..Len(ms) : ms[i] = ms[j] => i = j}

StoredContents ==
    {Bytes(pre, TRUE, ms) : pre \in {<<>>, <<"x">>, <<"P", "K">>}, ms \in Archives}
    \cup {NoContent, Bytes(<<"x">>, FALSE, <<>>), Bytes(<<"P", "K", "x">>, FALSE, <<>>)}

\* a dict of one item, the empty dict, and dict.update
Item(k, v) == [x \in {k} |-> v]

EmptyDict == [x \in {} |-> <<>>]

Merge(f, g) == [k \in DOMAIN f \cup DOMAIN g |-> IF k \in DOMAIN g THEN g[k] ELSE f[k]]

DefaultPort == 5432

\* QGISProjectsTab._collect_new_parameters: the dict built from the form
CollectNewParameters(form) ==
    LET Text(k, field) == IF Strip(field) # <<>> THEN Item(k, Strip(field)) ELSE EmptyDict
        fields ==
            Merge(Merge(Merge(Merge(Text("dbname", form.dbname), Text("host", form.host)),
                              Text("user", form.user)),
                        IF form.port # DefaultPort THEN Item("port", <<form.port>>) ELSE EmptyDict),
                  Text("password", form.password))
        source_schema == Strip(form.source_schema)
        target_schema == Strip(form.target_schema)
    IN  IF source_schema # <<>> /\ target_schema # <<>>
        THEN Merge(fields, Item("schema_remapping",
                                [source |-> source_schema, target |-> target_schema]))
        ELSE IF target_schema # <<>> THEN Merge(fields, Item("schema", target_schema))
        ELSE IF source_schema # <<>> THEN EmptyDict
        ELSE fields

Form(d, h, u, p, w, src, tgt) ==
    [dbname |-> d, host |-> h, user |-> u, port |-> p, password |-> w,
     source_schema |-> src, target_schema |-> tgt]

\* what the user types before pressing the button
Forms ==
    {Form(d, <<>>, <<>>, DefaultPort, <<>>, src, tgt) :
        d \in {<<>>, <<" ">>, <<"b">>}, src \in {<<>>, <<"s">>}, tgt \in {<<>>, <<"n">>}}

NoResult == [ok |-> FALSE, content |-> NoContent]

FixInit ==
    /\ row_exists \in BOOLEAN
    /\ row_content \in StoredContents
    /\ new_params = EmptyDict
    /\ fixPc = "idle"
    /\ project_content = NoContent
    /\ fixed_content = NoResult
    /\ fix_finished = <<>>
    /\ fix_fault = FALSE

\* the manager as constructed, with no project table modelled
FixIdle ==
    /\ row_exists = FALSE
    /\ row_content = NoContent
    /\ new_params = EmptyDict
    /\ fixPc = "idle"
    /\ project_content = NoContent
    /\ fixed_content = NoResult
    /\ fix_finished = <<>>
    /\ fix_fault = FALSE

\* QGISProjectsTab.fix_qgis_project: fix_qgis_project_layers is called with
\* the parameters collected from the form, unless there is none
FixStart ==
    /\ UNCHANGED notFix
    /\ fixPc = "idle"
    /\ \E form \in Forms :
          /\ DOMAIN CollectNewParameters(form) # {}
          /\ new_params' = CollectNewParameters(form)
    /\ fixPc' = "download"
    /\ UNCHANGED <<row_exists, row_content, project_content, fixed_content, fix_finished,
                   fix_fault>>

\* step 1, _download_project_content: None on psycopg2.Error, an Exception
\* when there is no such row, else the bytes; "if not content" and the
\* "except Exception" of fix_qgis_project_layers both emit False
FixDownload ==
    /\ UNCHANGED notFix
    /\ fixPc = "download"
    /\ \E query_fails \in BOOLEAN :
          LET got == IF query_fails \/ ~row_exists THEN NoContent ELSE row_content
          IN  /\ project_content' = got
              /\ fix_fault' = query_fails
              /\ IF got = NoContent
                 THEN fixPc' = "finished" /\ fix_finished' = Append(fix_finished, FALSE)
                 ELSE fixPc' = "process" /\ UNCHANGED fix_finished
    /\ UNCHANGED <<row_exists, row_content, new_params, fixed_content>>

\* the members of the archive _process_qgs_file extracts
InputMembers == CleanAndPreserveZipContent(project_content).clean.members

\* step 2, _process_qgs_file; an OSError while the files are copied or
\* written makes it return None like every other exception
FixProcess ==
    /\ UNCHANGED notFix
    /\ fixPc = "process"
    /\ \E listing \in Listings(RootFiles(InputMembers)),
          debug_dir \in BOOLEAN, io_fails \in BOOLEAN :
          LET res == IF io_fails THEN NoResult
                     ELSE ProcessQgsFile(project_content, new_params, listing, debug_dir)
          IN  /\ fixed_content' = res
              /\ fix_fault' = io_fails
              /\ IF ~res.ok
                 THEN fixPc' = "finished" /\ fix_finished' = Append(fix_finished, FALSE)
                 ELSE fixPc' = "upload" /\ UNCHANGED fix_finished
    /\ UNCHANGED <<row_exists, row_content, new_params, project_content>>

\* step 3: the call of _upload_project_content is commented out; success is
\* reported and the row is left as it was
FixFinish ==
    /\ UNCHANGED notFix
    /\ fixPc = "upload"
    /\ fixPc' = "finished"
    /\ fix_finished' = Append(fix_finished, TRUE)
    /\ UNCHANGED <<row_exists, row_content, new_params, project_content, fixed_content,
                   fix_fault>>

FixNext ==
    \/ FixStart
    \/ FixDownload
    \/ FixProcess
    \/ FixFinish

-----------------------------------------------------------------------------
(* fix_qgis_project_layers: the claims *)

\* C7: after fix_qgis_project_layers emits operation_finished(True), the
\* content column of the project's row holds the repackaged archive with
\* the repaired connection strings.
C7_RowHoldsRepackagedArchive ==
    (fixPc = "finished" /\ fix_finished = <<TRUE>>)
        => (row_exists /\ row_content = fixed_content.content)

MemberName(m) == <<m.dir, m.stem, m.ext>>

\* the member with the same name in the returned archive is the same bytes
KeptIn(m, out) ==
    \E i \in 1..Len(out) : MemberName(out[i]) = MemberName(m) /\ out[i].data = m.data

\* the archive _process_qgs_file returned
OutputMembers == fixed_content.content.members

Processed == fixPc \in {"upload", "finished"} /\ fixed_content.ok

WithSchema(ds, source, target) ==
    LET at == FindSeq(ds, <<"table", "=">>)
        quoted == /\ at > 0 /\ at + 8 <= Len(ds)
                  /\ ds[at + 2] = "\"" /\ ds[at + 4] = "\"" /\ ds[at + 5] = "."
                  /\ ds[at + 6] = "\"" /\ ds[at + 8] = "\""
        bare == /\ at > 0 /\ at + 4 <= Len(ds)
                /\ IsWord(ds[at + 2]) /\ ds[at + 3] = "." /\ IsWord(ds[at + 4])
    IN  IF quoted /\ <<ds[at + 3]>> = source THEN [ds EXCEPT ![at + 3] = target[1]]
        ELSE IF bare /\ <<ds[at + 2]>> = source THEN [ds EXCEPT ![at + 2] = target[1]]
        ELSE ds

\* the stored project can be processed: an archive with a .qgs at its root
Processable(c) ==
    /\ c.zip
    /\ \E i \in 1..Len(c.members) : c.members[i].dir = "" /\ IsQgsName(c.members[i])

\* C13: when both a source schema and a target schema are filled in,
\* fix_qgis_project_layers succeeds and rewrites the schema part of the
\* table parameter to the target schema in exactly the datasources whose
\* table uses the source schema; the other datasources are unchanged.
C13_SchemaRemapping ==
    (/\ fixPc = "finished"
     /\ "schema_remapping" \in DOMAIN new_params
     /\ row_exists /\ Processable(row_content) /\ ~fix_fault)
        => /\ fix_finished = <<TRUE>>
           /\ \E q \in 1..Len(InputMembers) :
                 /\ InputMembers[q].dir = "" /\ IsQgsName(InputMembers[q])
                 /\ \E j \in 1..Len(OutputMembers) :
                       /\ MemberName(OutputMembers[j]) = MemberName(InputMembers[q])
                       /\ OutputMembers[j].data =
                             [d \in 1..Len(InputMembers[q].data) |->
                                WithSchema(InputMembers[q].data[d],
                                           new_params["schema_remapping"].source,
                                           new_params["schema_remapping"].target)]

-----------------------------------------------------------------------------
(* _clean_and_preserve_zip_content as a function of any byte string *)

NoCleaned == [ok |-> FALSE, clean |-> NoContent, prefix |-> <<>>]

\* every content of up to MaxPre bytes, alone or in front of an archive
ZipInputs ==
    {Bytes(pre, z, <<>>) : pre \in SeqsUpTo({"P", "K", "x"}, MaxPre), z \in BOOLEAN}

ZipInit ==
    /\ zip_content \in ZipInputs
    /\ zip_result = NoCleaned
    /\ zipPc = "idle"

ZipIdle ==
    /\ zip_content = NoContent
    /\ zip_result = NoCleaned
    /\ zipPc = "idle"

\* clean_content, prefix_bytes = self._clean_and_preserve_zip_content(content)
CleanZipCall ==
    /\ UNCHANGED notZip
    /\ zipPc = "idle"
    /\ zip_result' = CleanAndPreserveZipContent(zip_content)
    /\ zipPc' = "done"
    /\ UNCHANGED zip_content

ZipNext == CleanZipCall

\* the byte string a content stands for: an archive starts with PK, "z"
\* stands for the bytes after that
Flat(c) == c.pre \o (IF c.zip THEN <<"P", "K", "z">> ELSE <<>>)

ContainsPK(b) == \E i \in 1..(Len(b) - 1) : b[i] = "P" /\ b[i + 1] = "K"

\* C11: for every byte string c that contains PK the function returns (z, p)
\* where z starts with PK, p contains no PK, and p followed by z is c; for
\* an empty c and for a c without PK it returns (None, None).
C11_SplitsAtFirstPK ==
    zipPc = "done"
        => IF ContainsPK(Flat(zip_content))
           THEN /\ zip_result.ok
                /\ Len(Flat(zip_result.clean)) >= 2
                /\ SubSeq(Flat(zip_result.clean), 1, 2) = <<"P", "K">>
                /\ ~ContainsPK(zip_result.prefix)
                /\ zip_result.prefix \o Flat(zip_result.clean) = Flat(zip_content)
           ELSE zip_result = NoCleaned

\* C11 happens: the content has bytes in front of a first PK and another PK
\* later, and was split.
C11_Witness ==
    /\ zipPc = "done"
    /\ zip_content.pre = <<"x", "P", "K">>
    /\ zip_content.zip
    /\ zip_result.ok
    /\ zip_result.prefix = <<"x">>

-----------------------------------------------------------------------------
(* _modify_qgs_datasources as a function of the file and the parameters *)

\* datasources as QGIS writes them, and as they can be typed
DsFull == <<"dbname", "=", "'", "a", "'", " ", "host", "=", "h", " ",
            "user", "=", "'", "u", "'", " ",
            "table", "=", "\"", "s", "\"", ".", "\"", "t", "\"", " ", "(", "geom", ")">>

DsBare == <<"dbname", "=", "a", " ", "host", "=", "h", " ", "table", "=", "s", ".", "t">>

DsNoSchema == <<"dbname", "=", "'", "a", "'", " ", "table", "=", "\"", "t", "\"">>

\* a layer whose filter compares a column called type
DsFiltered == <<"dbname", "=", "'", "a", "'", " ", "type", "=", "Point", " ",
                "table", "=", "o", ".", "t", " ", "sql", "=", "type", "=", "'", "A", "'">>

DsFile == <<"t", ".", "shp">>

DsPool == {DsFull, DsBare, DsNoSchema, DsFiltered, DsFile}

\* new_params with text values only: absent keys, blank values, new values
ModParams ==
    {Merge(Merge(Merge(d, u), h), sc) :
        d \in {EmptyDict, Item("dbname", <<"b">>)},
        u \in {EmptyDict, Item("user", <<" ">>), Item("user", <<"v">>)},
        h \in {EmptyDict, Item("host", <<"g">>)},
        sc \in {EmptyDict, Item("schema", <<"n">>)}}

ModInit ==
    /\ qgs_data \in SeqsUpTo(DsPool, MaxModDs)
    /\ mod_params \in ModParams
    /\ qgs_data0 = qgs_data
    /\ modPc = "idle"

ModIdle ==
    /\ qgs_data = <<>>
    /\ mod_params = EmptyDict
    /\ qgs_data0 = <<>>
    /\ modPc = "idle"

\* modifications_made = self._modify_qgs_datasources(qgs_path, new_params)
ModifyCall ==
    /\ UNCHANGED notMod
    /\ modPc = "idle"
    /\ qgs_data' = ModifyQgsDatasources(qgs_data, mod_params).data
    /\ modPc' = "done"
    /\ UNCHANGED <<mod_params, qgs_data0>>

ModNext == ModifyCall

\* every key=value pair written in a datasource, in the order of the text
PairsOf(ds) ==
    LET At(i) == IF ParamMatchLen(ds, i, "'") > 0 THEN "'"
                 ELSE IF ParamMatchLen(ds, i, "\"") > 0 THEN "\""
                 ELSE IF ParamMatchLen(ds, i, "") > 0 THEN ""
                 ELSE "none"
        RECURSIVE From(_)
        From(i) == IF i > Len(ds) THEN <<>>
                   ELSE IF At(i) = "none" THEN From(i + 1)
                   ELSE <<[key |-> ds[i], value |-> ParamMatchValue(ds, i, At(i))]>>
                        \o From(i + 1)
    IN  From(1)

\* a non-empty new value was supplied for the key
Supplied(k) == k \in DOMAIN mod_params /\ Strip(mod_params[k]) # <<>>

\* C12: a connection parameter (dbname, host, port, user, password) of a
\* datasource changes only if a non-empty new value was supplied for it and
\* the datasource has the key; every other key=value pair of every datasource
\* keeps its value, and no key is added.  (The table parameter may change
\* when a target schema is supplied.)
C12_OnlySuppliedParametersChange ==
    modPc = "done"
        => /\ Len(qgs_data) = Len(qgs_data0)
           /\ \A d \in 1..Len(qgs_data0) :
                 LET before == PairsOf(qgs_data0[d])
                     after == PairsOf(qgs_data[d])
                 IN  /\ Len(after) = Len(before)
                     /\ \A j \in 1..Len(before) :
                           /\ after[j].key = before[j].key
                           /\ after[j].value # before[j].value
                                 => \/ /\ before[j].key \in Range(ConnectionKeys)
                                       /\ Supplied(before[j].key)
                                    \/ before[j].key = "table" /\ Supplied("schema")

\* the schema and the table of a schema-qualified table parameter,
\* table="s"."t" or table=s.t, read off the text
TableRef(ds) ==
    LET at == FindSeq(ds, <<"table", "=">>)
        quoted == /\ at > 0 /\ at + 8 <= Len(ds)
                  /\ ds[at + 2] = "\"" /\ ds[at + 4] = "\"" /\ ds[at + 5] = "."
                  /\ ds[at + 6] = "\"" /\ ds[at + 8] = "\""
        bare == /\ at > 0 /\ at + 4 <= Len(ds)
                /\ IsWord(ds[at + 2]) /\ ds[at + 3] = "." /\ IsWord(ds[at + 4])
    IN  IF quoted THEN [qualified |-> TRUE, schema |-> ds[at + 3], table |-> ds[at + 7]]
        ELSE IF bare THEN [qualified |-> TRUE, schema |-> ds[at + 2], table |-> ds[at + 4]]
        ELSE [qualified |-> FALSE, schema |-> "", table |-> ""]

\* C14: when only a target schema is supplied, after _modify_qgs_datasources
\* every datasource with a schema-qualified table parameter, quoted or
\* unquoted, has the target schema as its schema part and its table part
\* unchanged.
C14_TargetSchemaEverywhere ==
    (modPc = "done" /\ DOMAIN mod_params = {"schema"})
        => \A d \in 1..Len(qgs_data0) :
              TableRef(qgs_data0[d]).qualified
                 => /\ TableRef(qgs_data[d]).qualified
                    /\ <<TableRef(qgs_data[d]).schema>> = mod_params["schema"]
                    /\ TableRef(qgs_data[d]).table = TableRef(qgs_data0[d]).table

-----------------------------------------------------------------------------
(* Specifications *)

InitClean == CleanInit /\ ArchIdle /\ DbIdle /\ FixIdle /\ ZipIdle /\ ModIdle

SpecClean == InitClean /\ [][CleanNext]_vars

InitArchive == ArchInit /\ CleanIdle /\ DbIdle /\ FixIdle /\ ZipIdle /\ ModIdle

SpecArchive == InitArchive /\ [][ArchNext]_vars

InitDb == DbInit /\ CleanIdle /\ ArchIdle /\ FixIdle /\ ZipIdle /\ ModIdle

SpecDb == InitDb /\ [][DbNext]_vars

InitFix == FixInit /\ CleanIdle /\ ArchIdle /\ DbIdle /\ ZipIdle /\ ModIdle

SpecFix == InitFix /\ [][FixNext]_vars

InitZip == ZipInit /\ CleanIdle /\ ArchIdle /\ DbIdle /\ FixIdle /\ ModIdle

SpecZip == InitZip /\ [][ZipNext]_vars

InitMod == ModInit /\ CleanIdle /\ ArchIdle /\ DbIdle /\ FixIdle /\ ZipIdle

SpecMod == InitMod /\ [][ModNext]_vars

=============================================================================
